---- MODULE Spec2Model ----
(***************************************************************************)
(* Working-tree Merkle node of utils/merkletrie/filesystem (node.go).      *)
(*                                                                         *)
(* The program state is the tree of node objects (one per path, created by *)
(* Children()), the walk-wide inputs fixed by the constructor (submodule   *)
(* map, index, index map, options), the trace of calls the nodes made on   *)
(* the billy.Filesystem, and the value returned by the last call.  The     *)
(* filesystem is an interface: what ReadDir, Open/Read and Readlink answer *)
(* is an input of the call, drawn from the fixture sets below, so a file   *)
(* may hold other bytes at hashing time than it did at listing time.       *)
(*                                                                         *)
(* The layered object store (a primary store and the chain of alternates   *)
(* it resolves on first use) is the second part of the state: the          *)
(* alternates declarations of the stores, the store's chain cell with the  *)
(* resolver's work, and the callers of Lookup.  Its specification is       *)
(* SpecAlternates; in Spec the store stays as constructed.                 *)
(***************************************************************************)
EXTENDS Integers, Sequences, FiniteSets, TLC

VARIABLES nodes, submodules, idx, idxMap, options, fsLog, ret, decls, los, callers

vars == <<nodes, submodules, idx, idxMap, options, fsLog, ret, decls, los, callers>>

(***************************************************************************)
(* Bounds of the model.                                                    *)
(***************************************************************************)
\* ReadDir calls in a behaviour
MaxReadDir == 2
\* lines of the primary store's alternates declaration
MaxDecl == 2
\* Lookup calls on the layered object store in a behaviour
MaxLookups == 3

(***************************************************************************)
(* Bytes, hashes and object-format modes (plumbing, plumbing/filemode).    *)
(***************************************************************************)
Sha1Size == 20
DirHashSize == 24

Zeros(k) == [i \in 1..k |-> 0]
ZeroHash == Zeros(Sha1Size)

\* a byte string padded with zero bytes to the size of a SHA-1 sum
Pad(s) == [i \in 1..Sha1Size |-> IF i <= Len(s) THEN s[i] ELSE 0]

Empty == 0
Dir == 16384
Regular == 33188
Executable == 33261
Symlink == 40960
Submodule == 57344

\* FileMode.Bytes(): the mode as a little-endian 32-bit word
ModeBytes(m) == <<m % 256, (m \div 256) % 256, (m \div 65536) % 256, (m \div 16777216) % 256>>

(***************************************************************************)
(* os.FileMode: the set of type/flag bits that are set, and the permission *)
(* bits as a number.                                                       *)
(***************************************************************************)
ModeType == {"ModeDir", "ModeSymlink", "ModeNamedPipe", "ModeSocket", "ModeDevice", "ModeCharDevice", "ModeIrregular"}

OsMode(bits, perm) == [bits |-> bits, perm |-> perm]

IsRegular(m) == m.bits \cap ModeType = {}
IsDirMode(m) == "ModeDir" \in m.bits
isSetUserExecutable(m) == (m.perm \div 64) % 2 = 1

\* filemode.NewFromOSFileMode: [mode, err]
NewFromOSFileMode(m) ==
    IF IsRegular(m)
    THEN IF "ModeTemporary" \in m.bits THEN [mode |-> Empty, err |-> TRUE]
         ELSE IF "ModeCharDevice" \in m.bits THEN [mode |-> Empty, err |-> TRUE]
         ELSE IF isSetUserExecutable(m) THEN [mode |-> Executable, err |-> FALSE]
         ELSE [mode |-> Regular, err |-> FALSE]
    ELSE IF IsDirMode(m) THEN [mode |-> Dir, err |-> FALSE]
    ELSE IF "ModeSymlink" \in m.bits THEN [mode |-> Symlink, err |-> FALSE]
    ELSE [mode |-> Empty, err |-> TRUE]

(***************************************************************************)
(* time.Time: an instant and a location.  Instant 0 is the zero time.      *)
(***************************************************************************)
Time(inst, loc) == [inst |-> inst, loc |-> loc]
TimeIsZero(t) == t.inst = 0
TimeEqual(t, u) == t.inst = u.inst

(***************************************************************************)
(* int64 sizes as two 32-bit words: the value is hi * 2^32 + lo.           *)
(***************************************************************************)
Size(hi, lo) == [hi |-> hi, lo |-> lo]
\* uint32(size)
Uint32(sz) == sz.lo
\* size - k; the low word is left unnormalised, so hi = 0 and lo < 0 is a
\* negative length
SizeMinus(sz, k) == Size(sz.hi, sz.lo - k)

(***************************************************************************)
(* plumbing.Hasher: the digest of the header "blob <declared length>" and  *)
(* the bytes written, as an injective encoding of both (SHA-1 is taken to  *)
(* be collision free); its first byte is never 0.                          *)
(***************************************************************************)
HashSum(declared, bytes) == Pad(<<1, declared.hi, declared.lo, Len(bytes)>> \o bytes)

(***************************************************************************)
(* utils/convert: text statistics and the CRLF -> LF writer.               *)
(***************************************************************************)
CR == 13
LF == 10
NUL == 0
EOFChar == 26

NoStat == [NUL |-> 0, LoneCR |-> 0, LoneLF |-> 0, CRLF |-> 0, Printable |-> 0, NonPrintable |-> 0]

RECURSIVE gatherStats(_, _, _)
gatherStats(buf, i, s) ==
    IF i > Len(buf) THEN s
    ELSE LET c == buf[i] IN
         IF c = CR
         THEN IF i + 1 <= Len(buf) /\ buf[i + 1] = LF
              THEN gatherStats(buf, i + 2, [s EXCEPT !.CRLF = @ + 1])
              ELSE gatherStats(buf, i + 1, [s EXCEPT !.LoneCR = @ + 1])
         ELSE IF c = LF THEN gatherStats(buf, i + 1, [s EXCEPT !.LoneLF = @ + 1])
         ELSE IF c = 127 THEN gatherStats(buf, i + 1, [s EXCEPT !.NonPrintable = @ + 1])
         ELSE IF c < 32
         THEN IF c \in {8, 9, 27, 12} THEN gatherStats(buf, i + 1, [s EXCEPT !.Printable = @ + 1])
              ELSE IF c = NUL THEN gatherStats(buf, i + 1, [s EXCEPT !.NUL = @ + 1, !.NonPrintable = @ + 1])
              ELSE gatherStats(buf, i + 1, [s EXCEPT !.NonPrintable = @ + 1])
         ELSE gatherStats(buf, i + 1, [s EXCEPT !.Printable = @ + 1])

\* convert.GetStat on the whole stream
GetStat(buf) ==
    LET s == gatherStats(buf, 1, NoStat) IN
    IF Len(buf) >= 1 /\ buf[Len(buf)] = EOFChar THEN [s EXCEPT !.NonPrintable = @ - 1] ELSE s

\* Stat.IsBinary
IsBinary(s) == s.LoneCR > 0 \/ s.NUL > 0 \/ (s.Printable \div 128) < s.NonPrintable

\* what convert.NewLFWriter passes on: every CR LF pair becomes LF
RECURSIVE LFWrite(_)
LFWrite(buf) ==
    IF buf = <<>> THEN <<>>
    ELSE IF Len(buf) >= 2 /\ buf[1] = CR /\ buf[2] = LF THEN <<LF>> \o LFWrite(SubSeq(buf, 3, Len(buf)))
    ELSE <<buf[1]>> \o LFWrite(Tail(buf))

(***************************************************************************)
(* Fixture: the paths of the working tree and what the filesystem may      *)
(* answer for them.  Paths are the sequences of their elements; the root   *)
(* is the empty path.                                                      *)
(***************************************************************************)
RootPath == <<>>
PathA == <<"a">>
PathS == <<"s">>
PathB == <<"s", "b">>
AllPaths == {RootPath, <<".git">>, PathA, PathS, PathB, <<"s", ".git">>}

\* path.Join of a clean path and an entry name
Join(parent, name) == Append(parent, name)

Reg644 == OsMode({}, 420)
Reg755 == OsMode({}, 493)
SymlinkMode == OsMode({"ModeSymlink"}, 511)
DirMode == OsMode({"ModeDir"}, 493)
PipeMode == OsMode({"ModeNamedPipe"}, 420)
SocketMode == OsMode({"ModeSocket"}, 493)

ZeroTime == Time(0, "UTC")
FsTimes == {ZeroTime, Time(1, "Local"), Time(2, "Local")}

FileInfo(name, mode, size, modTime) == [name |-> name, mode |-> mode, size |-> size, modTime |-> modTime]

\* os.FileInfo.IsDir
IsDir(fi) == IsDirMode(fi.mode)

\* "a": a regular file, an executable, a symlink or a named pipe, of
\* 1, 2 or 2^32 + 1 bytes (the last for regular files only), or an empty
\* regular file
AInfos ==
    {FileInfo("a", m, sz, t) : m \in {Reg644, Reg755}, sz \in {Size(0, 1), Size(0, 2), Size(1, 1)}, t \in FsTimes}
    \cup {FileInfo("a", Reg644, Size(0, 0), Time(1, "Local"))}
    \cup {FileInfo("a", m, sz, t) : m \in {SymlinkMode, PipeMode}, sz \in {Size(0, 1), Size(0, 2)}, t \in FsTimes}
    \cup {FileInfo("a", SocketMode, Size(0, 0), Time(1, "Local"))}
\* "s": a directory (a submodule checkout or a plain directory), a file or a pipe
SInfos == {FileInfo("s", m, Size(0, 1), Time(1, "Local")) : m \in {DirMode, Reg644, PipeMode}}
GitInfos == {FileInfo(".git", DirMode, Size(0, 0), Time(1, "Local"))}
BInfos == {FileInfo("b", Reg644, Size(0, 1), Time(2, "Local"))}

Opt(S) == {<<>>} \cup {<<e>> : e \in S}

\* the listings ReadDir may return, entries in name order: the root holds
\* any "a" or any "s", or the plain file "a" beside any "s"; ".git" may be
\* there or not
BaseA == FileInfo("a", Reg644, Size(0, 1), Time(1, "Local"))
Listings(path) ==
    IF path = RootPath
    THEN {g \o a : g \in Opt(GitInfos), a \in Opt(AInfos)}
         \cup {g \o a \o s : g \in Opt(GitInfos), a \in Opt({BaseA}), s \in Opt(SInfos)}
    ELSE IF path = PathS THEN {g \o b : g \in Opt(GitInfos), b \in Opt(BInfos)}
    ELSE {<<>>}

\* the answers of ReadDir: an error, or a listing in which at most one
\* entry (failAt, 0 for none) fails to report its Info()
ReadDirAnswers(path) ==
    {[err |-> e, files |-> <<>>, failAt |-> 0] : e \in {"notexist", "io"}}
    \cup UNION {{[err |-> "", files |-> l, failAt |-> k] : k \in 0..Len(l)} : l \in Listings(path)}

\* the answers drawn for a call on node n: those of ReadDir when the node is
\* a directory without cached children, else the empty listing alone
DirAnswers(n) ==
    IF n.isDir /\ Len(n.children) = 0 THEN ReadDirAnswers(n.path)
    ELSE {[err |-> "", files |-> <<>>, failAt |-> 0]}

\* the bytes a read of a regular file may return
FileContents == {<<120>>, <<CR, LF>>, <<CR>>}
\* the targets Readlink may return
LinkTargets == {<<116>>, <<116, 117>>}

NoIO == [op |-> "none", err |-> "", data |-> <<>>]

(***************************************************************************)
(* The index (plumbing/format/index) and the constructors.                 *)
(***************************************************************************)
H1 == Pad(<<17>>)
Commit1 == Pad(<<99>>)
Commit0 == Pad(<<98>>)

Entry(name, hash, size, modifiedAt, mode) == [Name |-> name, Hash |-> hash, Size |-> size, ModifiedAt |-> modifiedAt, Mode |-> mode]
NilEntry == [nil |-> TRUE]

EntryA == Entry(PathA, H1, 1, Time(1, "UTC"), Regular)
EntryS == Entry(PathS, Commit0, 0, Time(1, "UTC"), Submodule)

NilIndex == [nil |-> TRUE, Entries |-> <<>>]
Index(entries) == [nil |-> FALSE, Entries |-> entries]
Indexes == {Index(<<EntryA, EntryS>>)}

NilOptions == [nil |-> TRUE, AutoCRLF |-> FALSE]
Options(autoCRLF) == [nil |-> FALSE, AutoCRLF |-> autoCRLF]

NilMap == [nil |-> TRUE, m |-> <<>>]

SubmoduleMaps == {<<>>, [p \in {PathS} |-> Commit1]}

\* a reference held in a field of a node: Nil, or the name of the object
\* (the variable of that name) it points to
Nil == "nil"

\* a node literal: the fields it does not name are zero values, so the
\* references to the submodule map, the index, its map and the options are Nil
Node(path, isDir, mode, size, modTime) == [submodules |-> Nil, idx |-> Nil, idxMap |-> Nil, options |-> Nil, path |-> path, hash |-> <<>>, children |-> <<>>, isDir |-> isDir, mode |-> mode, size |-> size, modTime |-> modTime]

\* n.submodules, n.idxMap and n.options followed to the object; a nil map
\* reads as an empty one
submodulesOf(n) == IF n.submodules = Nil THEN <<>> ELSE submodules

idxMapOf(n) == IF n.idxMap = Nil THEN NilMap ELSE idxMap

optionsOf(n) == IF n.options = Nil THEN NilOptions ELSE options

\* the node the three constructors return: &node{..., isDir: true}
RootNode == Node(RootPath, TRUE, OsMode({}, 0), Size(0, 0), ZeroTime)

\* the loop of NewRootNodeWithIndex: idxMap[entry.Name] = entry
RECURSIVE BuildIdxMap(_, _, _)
BuildIdxMap(entries, i, m) ==
    IF i > Len(entries) THEN m
    ELSE BuildIdxMap(entries, i + 1, [p \in DOMAIN m \cup {entries[i].Name} |-> IF p = entries[i].Name THEN entries[i] ELSE m[p]])

NewRootNode(subs) ==
    /\ nodes = [p \in {RootPath} |-> [RootNode EXCEPT !.submodules = "submodules"]]
    /\ submodules = subs
    /\ idx = NilIndex
    /\ idxMap = NilMap
    /\ options = NilOptions

NewRootNodeWithOptions(subs, opts) ==
    /\ nodes = [p \in {RootPath} |-> [RootNode EXCEPT !.submodules = "submodules", !.options = "options"]]
    /\ submodules = subs
    /\ idx = NilIndex
    /\ idxMap = NilMap
    /\ options = opts

NewRootNodeWithIndex(subs, index, opts) ==
    /\ nodes = [p \in {RootPath} |-> [RootNode EXCEPT !.submodules = "submodules", !.idx = "idx", !.idxMap = "idxMap", !.options = "options"]]
    /\ submodules = subs
    /\ idx = index
    /\ idxMap = [nil |-> FALSE, m |-> BuildIdxMap(index.Entries, 1, <<>>)]
    /\ options = opts

(***************************************************************************)
(* Object stores, alternates declarations and the layered object store     *)
(* (spec.md 3 and 4.2: ObjectStoreHandle, AlternatesDeclaration,           *)
(* AlternateChain, LayeredObjectStore).                                    *)
(***************************************************************************)
\* the physical stores, by canonical path; Primary is the store the layered
\* object store is opened on
Stores == {"S1", "S2", "S3"}
Primary == "S1"
\* a line of an alternates declaration that names no store
Malformed == "?"
ObjectIDs == {"o1", "o2", "o3"}
\* the objects each store holds: o1 in the primary and in S2, o2 only in
\* alternates, o3 nowhere
Objects == [s \in Stores |-> IF s = "S1" THEN {"o1"} ELSE IF s = "S2" THEN {"o1", "o2"} ELSE {"o2"}]
Callers == {"c1", "c2"}

SeqsUpTo(S, n) == UNION {[1..k -> S] : k \in 0..n}

\* the alternates declarations: one backing-store path per line; the
\* primary declares any lines, or itself first
Declarations ==
    {[s \in Stores |-> IF s = "S1" THEN d1 ELSE IF s = "S2" THEN d2 ELSE d3] :
        d1 \in SeqsUpTo((Stores \ {Primary}) \cup {Malformed}, MaxDecl) \cup {<<"S1">>, <<"S1", "S2">>},
        d2 \in {<<>>, <<"S1">>, <<"S2">>, <<"S3">>, <<Malformed>>, <<"S3", "S1">>},
        d3 \in {<<>>, <<"S1">>, <<"S2">>, <<Malformed>>}}
NoDeclarations == [s \in Stores |-> <<>>]

\* a layered object store after construction: the chain cell is empty
\* (state "empty", then "building", then "done"); resolutions counts the
\* resolutions begun and lookups the Lookup calls begun (instrumentation),
\* work is the chain under construction (the stores opened, in order) and
\* pending the declaration lines the resolution has still to visit
NewLayeredObjectStore ==
    [state |-> "empty", chain |-> <<>>, err |-> "", resolutions |-> 0, work |-> <<>>, pending |-> <<>>, lookups |-> 0]

\* what a Lookup returned: the chain it searched, the error, the hit
NoResult == [id |-> "", chain |-> <<>>, err |-> "", found |-> FALSE, from |-> ""]
\* a caller: where it is in Lookup (pc), the object asked for, whether the
\* call began before the chain was resolved (first use), the result
NoCallers == [c \in Callers |-> [pc |-> "idle", id |-> "", first |-> FALSE, res |-> NoResult]]

\* the last call: its receiver, what it returned (val: a hash or a list of
\* children, num, err), whether it was served from the node's cache, and
\* the listing ReadDir answered to it (each entry's name, and whether its
\* Info() is a socket), empty when it listed nothing
NoRet == [op |-> "none", path |-> RootPath, val |-> <<>>, num |-> 0, err |-> "", cached |-> FALSE, listing |-> <<>>]

Init ==
    /\ \E subs \in SubmoduleMaps :
          \/ NewRootNode(subs)
          \/ \E crlf \in BOOLEAN : NewRootNodeWithOptions(subs, Options(crlf))
          \/ \E index \in Indexes, crlf \in BOOLEAN : NewRootNodeWithIndex(subs, index, Options(crlf))
    /\ fsLog = [reads |-> [p \in AllPaths |-> <<>>], dirs |-> [p \in AllPaths |-> [n |-> 0, last |-> "none"]]]
    /\ ret = NoRet
    /\ decls = NoDeclarations
    /\ los = NewLayeredObjectStore
    /\ callers = NoCallers

(***************************************************************************)
(* Hash()                                                                  *)
(***************************************************************************)
ignore == {".git"}

\* what Open and the reads that follow may answer: the bytes, or the step
\* that fails (GetStat and Seek run under AutoCRLF only)
OpenAnswers ==
    {[op |-> "Open", err |-> "", data |-> d] : d \in FileContents}
    \cup {[op |-> "Open", err |-> e, data |-> <<>>] : e \in {"open", "copy"} \cup (IF ~options.nil /\ options.AutoCRLF THEN {"stat", "seek"} ELSE {})}

ReadlinkAnswers ==
    {[op |-> "Readlink", err |-> "", data |-> d] : d \in LinkTargets}
    \cup {[op |-> "Readlink", err |-> "readlink", data |-> <<>>]}

\* the filesystem's answer to the read the slow path of n would make
IoAnswers(n) == IF "ModeSymlink" \in n.mode.bits THEN ReadlinkAnswers ELSE OpenAnswers

getIndexEntry(n) ==
    IF idxMapOf(n).nil THEN NilEntry
    ELSE IF n.path \in DOMAIN idxMapOf(n).m THEN idxMapOf(n).m[n.path] ELSE NilEntry

\* faulty variant: the modification times are compared as structs (==), not by Equal
metadataMatchesStructTime(n, entry) ==
    IF Uint32(n.size) # entry.Size THEN FALSE
    ELSE IF ~TimeIsZero(n.modTime) /\ n.modTime # entry.ModifiedAt THEN FALSE
    ELSE LET tr == NewFromOSFileMode(n.mode) IN
         IF tr.err THEN FALSE
         ELSE IF tr.mode # entry.Mode THEN FALSE
         ELSE TRUE

\* faulty variant: the size check is missing
metadataMatchesNoSize(n, entry) ==
    IF ~TimeIsZero(n.modTime) /\ ~TimeEqual(n.modTime, entry.ModifiedAt) THEN FALSE
    ELSE LET tr == NewFromOSFileMode(n.mode) IN
         IF tr.err THEN FALSE
         ELSE IF tr.mode # entry.Mode THEN FALSE
         ELSE TRUE

\* faulty variant: a zero modification time is compared like any other
metadataMatchesNoZeroGuard(n, entry) ==
    IF Uint32(n.size) # entry.Size THEN FALSE
    ELSE IF ~TimeEqual(n.modTime, entry.ModifiedAt) THEN FALSE
    ELSE LET tr == NewFromOSFileMode(n.mode) IN
         IF tr.err THEN FALSE
         ELSE IF tr.mode # entry.Mode THEN FALSE
         ELSE TRUE

\* faulty variant: the sizes are compared as 64-bit values
metadataMatchesFullSize(n, entry) ==
    IF n.size # Size(0, entry.Size) THEN FALSE
    ELSE IF ~TimeIsZero(n.modTime) /\ ~TimeEqual(n.modTime, entry.ModifiedAt) THEN FALSE
    ELSE LET tr == NewFromOSFileMode(n.mode) IN
         IF tr.err THEN FALSE
         ELSE IF tr.mode # entry.Mode THEN FALSE
         ELSE TRUE

metadataMatches(n, entry) ==
    IF Uint32(n.size) # entry.Size THEN FALSE
    ELSE IF ~TimeIsZero(n.modTime) /\ ~TimeEqual(n.modTime, entry.ModifiedAt) THEN FALSE
    ELSE LET tr == NewFromOSFileMode(n.mode) IN
         IF tr.err THEN FALSE
         ELSE IF tr.mode # entry.Mode THEN FALSE
         ELSE TRUE

\* faulty variant: a failed copy is not noticed and the hasher's sum is returned
doCalculateHashForRegularCopyUnchecked(n, io) ==
    IF io.err = "open" THEN ZeroHash
    ELSE IF ~optionsOf(n).nil /\ optionsOf(n).AutoCRLF
    THEN IF io.err = "stat" THEN ZeroHash
         ELSE IF io.err = "seek" THEN ZeroHash
         ELSE LET stat == GetStat(io.data) IN
              IF ~IsBinary(stat)
              THEN HashSum(SizeMinus(n.size, stat.CRLF), LFWrite(io.data))
              ELSE HashSum(n.size, io.data)
    ELSE HashSum(n.size, io.data)

doCalculateHashForRegular(n, io) ==
    IF io.err = "open" THEN ZeroHash
    ELSE IF ~optionsOf(n).nil /\ optionsOf(n).AutoCRLF
    THEN IF io.err = "stat" THEN ZeroHash
         ELSE IF io.err = "seek" THEN ZeroHash
         ELSE LET stat == GetStat(io.data) IN
              IF ~IsBinary(stat)
              THEN IF io.err = "copy" THEN ZeroHash ELSE HashSum(SizeMinus(n.size, stat.CRLF), LFWrite(io.data))
              ELSE IF io.err = "copy" THEN ZeroHash ELSE HashSum(n.size, io.data)
    ELSE IF io.err = "copy" THEN ZeroHash
    ELSE HashSum(n.size, io.data)

doCalculateHashForSymlink(n, io) ==
    IF io.err = "readlink" THEN ZeroHash
    ELSE HashSum(n.size, io.data)

\* the tail of calculateHash: no index entry, or its metadata differs
slowPath(n, mode, io) ==
    IF "ModeSymlink" \in n.mode.bits
    THEN [hash |-> doCalculateHashForSymlink(n, io) \o ModeBytes(mode), calls |-> <<io>>]
    ELSE [hash |-> doCalculateHashForRegular(n, io) \o ModeBytes(mode), calls |-> <<io>>]

\* faulty variant: the directory sentinel has the size of a plain hash
calculateHashShortSentinel(n, io) ==
    IF n.isDir THEN [hash |-> Zeros(Sha1Size), calls |-> <<>>]
    ELSE LET tr == NewFromOSFileMode(n.mode) IN
         IF tr.err THEN [hash |-> ZeroHash, calls |-> <<>>]
         ELSE IF n.path \in DOMAIN submodulesOf(n)
         THEN [hash |-> submodulesOf(n)[n.path] \o ModeBytes(Submodule), calls |-> <<>>]
         ELSE LET entry == getIndexEntry(n) IN
              IF entry # NilEntry /\ metadataMatches(n, entry)
              THEN [hash |-> entry.Hash \o ModeBytes(tr.mode), calls |-> <<>>]
              ELSE slowPath(n, tr.mode, io)

\* faulty variant: the error of the mode translation is dropped
calculateHashModeErrDropped(n, io) ==
    IF n.isDir THEN [hash |-> Zeros(DirHashSize), calls |-> <<>>]
    ELSE LET tr == NewFromOSFileMode(n.mode) IN
         IF n.path \in DOMAIN submodulesOf(n)
         THEN [hash |-> submodulesOf(n)[n.path] \o ModeBytes(Submodule), calls |-> <<>>]
         ELSE LET entry == getIndexEntry(n) IN
              IF entry # NilEntry /\ metadataMatches(n, entry)
              THEN [hash |-> entry.Hash \o ModeBytes(tr.mode), calls |-> <<>>]
              ELSE slowPath(n, tr.mode, io)

\* calculateHash: the new n.hash and the filesystem call made, if any
calculateHash(n, io) ==
    IF n.isDir THEN [hash |-> Zeros(DirHashSize), calls |-> <<>>]
    ELSE LET tr == NewFromOSFileMode(n.mode) IN
         IF tr.err THEN [hash |-> ZeroHash, calls |-> <<>>]
         ELSE IF n.path \in DOMAIN submodulesOf(n)
         THEN [hash |-> submodulesOf(n)[n.path] \o ModeBytes(Submodule), calls |-> <<>>]
         ELSE LET entry == getIndexEntry(n) IN
              IF entry # NilEntry /\ metadataMatches(n, entry)
              THEN [hash |-> entry.Hash \o ModeBytes(tr.mode), calls |-> <<>>]
              ELSE slowPath(n, tr.mode, io)

\* faulty variant: every call computes the hash again
HashOfRecomputed(n, io) == calculateHash(n, io)

\* Hash(): calculateHash on the first call, n.hash on every call
HashOf(n, io) == IF n.hash = <<>> THEN calculateHash(n, io) ELSE [hash |-> n.hash, calls |-> <<>>]

\* faulty variant: the computed identifier lands in a cell the file nodes share
HashSharedCell(p) ==
    /\ p \in DOMAIN nodes
    /\ \E io \in IoAnswers(nodes[p]) :
          LET r == HashOf(nodes[p], io) IN
          /\ nodes' = [q \in DOMAIN nodes |-> IF q = p \/ ~nodes[q].isDir THEN [nodes[q] EXCEPT !.hash = r.hash] ELSE nodes[q]]
          /\ fsLog' = [fsLog EXCEPT !.reads[p] = @ \o r.calls]
          /\ ret' = [op |-> "Hash", path |-> p, val |-> r.hash, num |-> 0, err |-> "", cached |-> nodes[p].hash # <<>>, listing |-> <<>>]
    /\ UNCHANGED <<submodules, idx, idxMap, options, decls, los, callers>>

Hash(p) ==
    /\ p \in DOMAIN nodes
    /\ \E io \in IoAnswers(nodes[p]) :
          LET r == HashOf(nodes[p], io) IN
          /\ nodes' = [nodes EXCEPT ![p].hash = r.hash]
          /\ fsLog' = [fsLog EXCEPT !.reads[p] = @ \o r.calls]
          /\ ret' = [op |-> "Hash", path |-> p, val |-> r.hash, num |-> 0, err |-> "", cached |-> nodes[p].hash # <<>>, listing |-> <<>>]
    /\ UNCHANGED <<submodules, idx, idxMap, options, decls, los, callers>>

(***************************************************************************)
(* Children() and NumChildren()                                            *)
(***************************************************************************)
\* faulty variant: a submodule path keeps the on-disk type
newChildNodeKeepsDir(n, file) ==
    [Node(Join(n.path, file.name), IsDir(file), file.mode, file.size, file.modTime) EXCEPT !.submodules = n.submodules, !.idx = n.idx, !.idxMap = n.idxMap, !.options = n.options]

\* faulty variant: the child does not take over the index map of its parent
newChildNodeNoIdxMap(n, file) ==
    LET path == Join(n.path, file.name) IN
    [Node(path, IF path \in DOMAIN submodulesOf(n) THEN FALSE ELSE IsDir(file), file.mode, file.size, file.modTime) EXCEPT !.submodules = n.submodules, !.idx = n.idx, !.options = n.options]

\* newChildNode: the child shares the submodule map, the index, its map and
\* the options of n, and takes path, type, size, mode and time from the entry
newChildNode(n, file) ==
    LET path == Join(n.path, file.name) IN
    [Node(path, IF path \in DOMAIN submodulesOf(n) THEN FALSE ELSE IsDir(file), file.mode, file.size, file.modTime) EXCEPT !.submodules = n.submodules, !.idx = n.idx, !.idxMap = n.idxMap, !.options = n.options]

\* the loop of calculateChildren over the listing, from entry i on: the
\* children appended so far stay in n.children when an entry fails
RECURSIVE childrenLoop(_, _, _, _, _)
childrenLoop(n, files, failAt, i, acc) ==
    IF i > Len(files) THEN [children |-> acc, err |-> ""]
    ELSE IF files[i].name \in ignore THEN childrenLoop(n, files, failAt, i + 1, acc)
    ELSE IF failAt = i THEN [children |-> acc, err |-> "info"]
    ELSE IF "ModeSocket" \in files[i].mode.bits THEN childrenLoop(n, files, failAt, i + 1, acc)
    ELSE childrenLoop(n, files, failAt, i + 1, Append(acc, newChildNode(n, files[i])))

\* faulty variant: a missing directory is reported like any other ReadDir failure
calculateChildrenNotExistFatal(n, ans) ==
    IF ~n.isDir THEN [children |-> <<>>, err |-> "", calls |-> <<>>]
    ELSE IF Len(n.children) # 0 THEN [children |-> <<>>, err |-> "", calls |-> <<>>]
    ELSE IF ans.err # "" THEN [children |-> <<>>, err |-> ans.err, calls |-> <<ans.err>>]
    ELSE LET r == childrenLoop(n, ans.files, ans.failAt, 1, <<>>) IN
         [children |-> r.children, err |-> r.err, calls |-> <<IF r.err = "" THEN "ok" ELSE r.err>>]

\* calculateChildren: the child nodes now in n.children, the error, and the
\* outcome of the ReadDir call made, if any ("ok", or what failed: the
\* listing with "notexist" or "io", an entry's Info() with "info")
calculateChildren(n, ans) ==
    IF ~n.isDir THEN [children |-> <<>>, err |-> "", calls |-> <<>>]
    ELSE IF Len(n.children) # 0 THEN [children |-> <<>>, err |-> "", calls |-> <<>>]
    ELSE IF ans.err # ""
    THEN IF ans.err = "notexist" THEN [children |-> <<>>, err |-> "", calls |-> <<ans.err>>]
         ELSE [children |-> <<>>, err |-> ans.err, calls |-> <<ans.err>>]
    ELSE LET r == childrenLoop(n, ans.files, ans.failAt, 1, <<>>) IN
         [children |-> r.children, err |-> r.err, calls |-> <<IF r.err = "" THEN "ok" ELSE r.err>>]

\* the log of ReadDir calls on a directory after the calls of one operation
DirLog(log, calls) == IF calls = <<>> THEN log ELSE [n |-> log.n + 1, last |-> calls[1]]

\* the state after calculateChildren: n.children holds the paths of the
\* new child nodes, which join the tree
WithChildren(p, r) ==
    LET new == {r.children[i].path : i \in DOMAIN r.children} IN
    [q \in DOMAIN nodes \cup new |->
        IF q = p THEN [nodes[p] EXCEPT !.children = @ \o [i \in DOMAIN r.children |-> r.children[i].path]]
        ELSE IF q \in new THEN (CHOOSE c \in {r.children[i] : i \in DOMAIN r.children} : c.path = q)
        ELSE nodes[q]]

\* the ReadDir calls of the behaviour so far
ReadDirCalls == fsLog.dirs[RootPath].n + fsLog.dirs[PathA].n + fsLog.dirs[PathS].n + fsLog.dirs[PathB].n

\* the listing a call's ReadDir answered
Listed(r, ans) ==
    IF r.calls = <<>> \/ ans.err # "" THEN <<>>
    ELSE [i \in DOMAIN ans.files |-> [name |-> ans.files[i].name, socket |-> "ModeSocket" \in ans.files[i].mode.bits]]

\* Children() when the filesystem answers ans
ChildrenWith(p, ans) ==
    LET r == calculateChildren(nodes[p], ans) IN
    /\ r.calls # <<>> => ReadDirCalls < MaxReadDir
    /\ nodes' = WithChildren(p, r)
    /\ fsLog' = [fsLog EXCEPT !.dirs[p] = DirLog(@, r.calls)]
    /\ ret' = IF r.err # ""
              THEN [op |-> "Children", path |-> p, val |-> <<>>, num |-> 0, err |-> r.err, cached |-> r.calls = <<>>, listing |-> Listed(r, ans)]
              ELSE [op |-> "Children", path |-> p, val |-> nodes'[p].children, num |-> 0, err |-> "", cached |-> r.calls = <<>>, listing |-> Listed(r, ans)]
    /\ UNCHANGED <<submodules, idx, idxMap, options, decls, los, callers>>

Children(p) ==
    /\ p \in DOMAIN nodes
    /\ \E ans \in DirAnswers(nodes[p]) : ChildrenWith(p, ans)

\* NumChildren() when the filesystem answers ans
NumChildrenWith(p, ans) ==
    LET r == calculateChildren(nodes[p], ans) IN
    /\ r.calls # <<>> => ReadDirCalls < MaxReadDir
    /\ nodes' = WithChildren(p, r)
    /\ fsLog' = [fsLog EXCEPT !.dirs[p] = DirLog(@, r.calls)]
    /\ ret' = IF r.err # ""
              THEN [op |-> "NumChildren", path |-> p, val |-> <<>>, num |-> -1, err |-> r.err, cached |-> r.calls = <<>>, listing |-> Listed(r, ans)]
              ELSE [op |-> "NumChildren", path |-> p, val |-> <<>>, num |-> Len(nodes'[p].children), err |-> "", cached |-> r.calls = <<>>, listing |-> Listed(r, ans)]
    /\ UNCHANGED <<submodules, idx, idxMap, options, decls, los, callers>>

NumChildren(p) ==
    /\ p \in DOMAIN nodes
    /\ \E ans \in DirAnswers(nodes[p]) : NumChildrenWith(p, ans)

Next ==
    \/ \E p \in AllPaths : Hash(p)
    \/ \E p \in AllPaths : Children(p)
    \/ \E p \in AllPaths : NumChildren(p)

Spec == Init /\ [][Next]_vars

(***************************************************************************)
(* LayeredObjectStore.Lookup and AlternateResolver.Open (spec.md 4.2, 5).  *)
(* Callers run concurrently; a step is one caller's next atomic step.      *)
(***************************************************************************)
\* faulty variant: the primary store is not counted as present
alreadyPresentChainOnly(l, s) == \E i \in DOMAIN l.work : l.work[i] = s

\* cycle guard of Open: the store is the primary or is in the chain already
alreadyPresent(l, s) == s = Primary \/ \E i \in DOMAIN l.work : l.work[i] = s

\* faulty variant: the resolved chain is not kept for the next Lookup
chainCachedNever(l) == FALSE

\* the chain cell of the layered object store: resolved and cached, or
\* under construction by one caller
chainCached(l) == l.state = "done"

\* faulty variant: a caller does not wait for the caller that is resolving
chainBuildingIgnored(l) == FALSE

chainBuilding(l) == l.state = "building"

\* the start of a resolution: the primary's declaration is to be visited
beginResolve(l, d) ==
    [l EXCEPT !.state = "building", !.resolutions = @ + 1, !.work = <<>>, !.pending = d[Primary]]

\* faulty variant: a malformed line is skipped like a store already present
openLineSkipMalformed(l, d) ==
    IF l.pending = <<>> THEN [l EXCEPT !.state = "done", !.chain = l.work]
    ELSE LET line == Head(l.pending)
             rest == Tail(l.pending) IN
         IF line = Malformed \/ alreadyPresent(l, line) THEN [l EXCEPT !.pending = rest]
         ELSE [l EXCEPT !.work = Append(@, line), !.pending = d[line] \o rest]

\* Open, one declaration line at a time: a malformed line fails the whole
\* resolution, a store already present is skipped, any other store joins
\* the chain and its own declaration is visited next (transitively, before
\* the lines that follow); with no line left the chain is published
openLine(l, d) ==
    IF l.pending = <<>> THEN [l EXCEPT !.state = "done", !.chain = l.work]
    ELSE LET line == Head(l.pending)
             rest == Tail(l.pending) IN
         IF line = Malformed
         THEN [l EXCEPT !.state = "done", !.chain = <<>>, !.err = "malformed", !.pending = <<>>]
         ELSE IF alreadyPresent(l, line) THEN [l EXCEPT !.pending = rest]
         ELSE [l EXCEPT !.work = Append(@, line), !.pending = d[line] \o rest]

\* faulty variant: the stores are searched from the last to the first
RECURSIVE firstHitFromLast(_, _, _)
firstHitFromLast(members, id, i) ==
    IF i > Len(members) THEN [found |-> FALSE, from |-> ""]
    ELSE LET m == members[Len(members) + 1 - i] IN
         IF id \in Objects[m] THEN [found |-> TRUE, from |-> m]
         ELSE firstHitFromLast(members, id, i + 1)

\* the first of the stores, from the i-th on, that holds the object
RECURSIVE firstHit(_, _, _)
firstHit(members, id, i) ==
    IF i > Len(members) THEN [found |-> FALSE, from |-> ""]
    ELSE IF id \in Objects[members[i]] THEN [found |-> TRUE, from |-> members[i]]
    ELSE firstHit(members, id, i + 1)

\* Lookup(id) on the resolved cell: the resolution's error, or the search
\* of the primary and then of the chain
lookupIn(l, id) ==
    IF l.err # "" THEN [id |-> id, chain |-> l.chain, err |-> l.err, found |-> FALSE, from |-> ""]
    ELSE LET h == firstHit(<<Primary>> \o l.chain, id, 1) IN
         [id |-> id, chain |-> l.chain, err |-> "", found |-> h.found, from |-> h.from]

\* a caller enters Lookup(id)
LookupBegin(c, id) ==
    /\ callers[c].pc = "idle"
    /\ los.lookups < MaxLookups
    /\ callers' = [callers EXCEPT ![c] = [pc |-> "call", id |-> id, first |-> ~chainCached(los), res |-> NoResult]]
    /\ los' = [los EXCEPT !.lookups = @ + 1]
    /\ UNCHANGED <<nodes, submodules, idx, idxMap, options, fsLog, ret, decls>>

\* Lookup with the chain resolved: the cached chain is searched
LookupCached(c) ==
    /\ callers[c].pc = "call"
    /\ chainCached(los)
    /\ callers' = [callers EXCEPT ![c].pc = "idle", ![c].res = lookupIn(los, callers[c].id)]
    /\ UNCHANGED <<nodes, submodules, idx, idxMap, options, fsLog, ret, decls, los>>

\* first use: the caller that finds the cell empty resolves the chain; a
\* caller that finds it under construction waits for it
LookupResolve(c) ==
    /\ callers[c].pc = "call"
    /\ ~chainCached(los)
    /\ ~chainBuilding(los)
    /\ los' = beginResolve(los, decls)
    /\ callers' = [callers EXCEPT ![c].pc = "build"]
    /\ UNCHANGED <<nodes, submodules, idx, idxMap, options, fsLog, ret, decls>>

\* the resolving caller's next step of Open; with the chain published (or
\* the resolution failed) its Lookup goes on like any other
Open(c) ==
    /\ callers[c].pc = "build"
    /\ los' = openLine(los, decls)
    /\ callers' = [callers EXCEPT ![c].pc = IF los'.state = "done" THEN "call" ELSE "build"]
    /\ UNCHANGED <<nodes, submodules, idx, idxMap, options, fsLog, ret, decls>>

InitAlternates ==
    /\ NewRootNode(<<>>)
    /\ fsLog = [reads |-> [p \in AllPaths |-> <<>>], dirs |-> [p \in AllPaths |-> [n |-> 0, last |-> "none"]]]
    /\ ret = NoRet
    /\ decls \in Declarations
    /\ los = NewLayeredObjectStore
    /\ callers = NoCallers

NextAlternates ==
    \/ \E c \in Callers, id \in ObjectIDs : LookupBegin(c, id)
    \/ \E c \in Callers : LookupCached(c)
    \/ \E c \in Callers : LookupResolve(c)
    \/ \E c \in Callers : Open(c)

SpecAlternates == InitAlternates /\ [][NextAlternates]_vars

\* the resolving caller is scheduled until its resolution ends
SpecAlternatesFair == SpecAlternates /\ WF_vars(\E c \in Callers : Open(c))

(***************************************************************************)
(* Properties.                                                             *)
(***************************************************************************)
\* the nodes whose identifier has been computed
Hashed == {p \in DOMAIN nodes : nodes[p].hash # <<>>}
\* the nodes that are neither directories nor submodule paths
FileNodes == {p \in DOMAIN nodes : ~nodes[p].isDir /\ p \notin DOMAIN submodules}
\* the entry the persisted index records for a path (one per path)
HasEntry(p) == \E i \in DOMAIN idx.Entries : idx.Entries[i].Name = p
EntryFor(p) == CHOOSE e \in {idx.Entries[i] : i \in DOMAIN idx.Entries} : e.Name = p
Translatable(p) == ~NewFromOSFileMode(nodes[p].mode).err
GitMode(p) == NewFromOSFileMode(nodes[p].mode).mode
\* the calls Open and Readlink the node at p has made
Reads(p) == fsLog.reads[p]
AutoCRLFOn == ~options.nil /\ options.AutoCRLF
\* the digest of the bytes a slow-path read returned, as section 4.1 step 5
\* describes it
ContentDigest(n, data) ==
    IF "ModeSymlink" \notin n.mode.bits /\ AutoCRLFOn /\ ~IsBinary(GetStat(data))
    THEN HashSum(SizeMinus(n.size, GetStat(data).CRLF), LFWrite(data))
    ELSE HashSum(n.size, data)

\* C1: Hash() is memoised per node. Every Hash() call leaves a non-nil
\* identifier in the node and returns it; once a node has its identifier, no
\* step changes it or makes the node open or read its file again, and a
\* Hash() call returns that same identifier, whatever the filesystem would
\* answer by then.
C1_HashMemoised ==
    /\ [](ret.op = "Hash" => ret.val # <<>> /\ nodes[ret.path].hash = ret.val)
    /\ [][\A p \in Hashed : nodes'[p].hash = nodes[p].hash /\ fsLog'.reads[p] = fsLog.reads[p]]_vars

\* a second Hash() call on a node whose first call read the file
C1_Witness == ret.op = "Hash" /\ ret.cached /\ Len(Reads(ret.path)) = 1

\* the observed size, modification time and mode all equal the entry's
MetadataEqual(p) ==
    /\ nodes[p].size = Size(0, EntryFor(p).Size)
    /\ TimeEqual(nodes[p].modTime, EntryFor(p).ModifiedAt)
    /\ Translatable(p) /\ GitMode(p) = EntryFor(p).Mode

\* C2: fast-path correctness. A hashed file node whose path has an index
\* entry with the same size, modification time and mode carries the entry's
\* hash followed by the entry's mode, and its file was never opened or read.
C2_FastPath ==
    \A p \in Hashed \cap FileNodes :
        HasEntry(p) /\ MetadataEqual(p) =>
            /\ nodes[p].hash = EntryFor(p).Hash \o ModeBytes(EntryFor(p).Mode)
            /\ Reads(p) = <<>>

C2_Witness == \E p \in Hashed \cap FileNodes : HasEntry(p) /\ MetadataEqual(p) /\ ~TimeIsZero(nodes[p].modTime)

\* the slow path was taken at p: one read, and the identifier is the digest
\* of what the read returned (the zero hash when it failed) with the mode
TookSlowPath(p) ==
    /\ Len(Reads(p)) = 1
    /\ nodes[p].hash = (IF Reads(p)[1].err # "" THEN ZeroHash ELSE ContentDigest(nodes[p], Reads(p)[1].data)) \o ModeBytes(GitMode(p))

\* C3 as stated: a hashed file node with an index entry whose size, mode or
\* modification time differs from the entry's has taken the slow path.
C3_AsStated ==
    \A p \in Hashed \cap FileNodes :
        HasEntry(p) /\ ~MetadataEqual(p) => TookSlowPath(p)

\* C3, amended: a hashed file node with a translatable mode and an index
\* entry has taken the slow path if its size modulo 2^32 differs from the
\* entry's size, or its translated mode differs from the entry's, or its
\* modification time is not zero and is another instant than the entry's.
C3_FastPathRejection ==
    \A p \in Hashed \cap FileNodes :
        /\ HasEntry(p) /\ Translatable(p)
        /\ \/ Uint32(nodes[p].size) # EntryFor(p).Size
           \/ GitMode(p) # EntryFor(p).Mode
           \/ ~TimeIsZero(nodes[p].modTime) /\ ~TimeEqual(nodes[p].modTime, EntryFor(p).ModifiedAt)
        => TookSlowPath(p)

\* a file of another size than the entry records was read and hashed
C3_Witness ==
    \E p \in Hashed \cap FileNodes :
        /\ HasEntry(p) /\ Translatable(p) /\ Uint32(nodes[p].size) # EntryFor(p).Size
        /\ GitMode(p) = EntryFor(p).Mode /\ TimeEqual(nodes[p].modTime, EntryFor(p).ModifiedAt)
        /\ Len(Reads(p)) = 1 /\ Reads(p)[1].err = ""

\* C4 as stated: every hashed node whose path is a key of the submodule map
\* carries the recorded commit id followed by the gitlink mode, whatever its
\* mode on disk, and has read nothing.
C4_SubmoduleOverride ==
    \A p \in Hashed \cap DOMAIN submodules :
        /\ nodes[p].hash = submodules[p] \o ModeBytes(Submodule)
        /\ Reads(p) = <<>>

\* C5: directory sentinel. The root and every child listed as a directory
\* outside the submodule map are directory nodes; a hashed directory node
\* carries 24 zero bytes, and Hash() on a directory node calls nothing on the
\* filesystem.
C5_DirectorySentinel ==
    /\ [](\A p \in DOMAIN nodes :
            /\ (p = RootPath \/ (IsDirMode(nodes[p].mode) /\ p \notin DOMAIN submodules)) => nodes[p].isDir
            /\ (nodes[p].isDir /\ p \in Hashed) => (nodes[p].hash = [i \in 1..24 |-> 0] /\ Reads(p) = <<>>))
    /\ [][ret'.op = "Hash" /\ nodes[ret'.path].isDir => fsLog' = fsLog /\ ret'.val = [i \in 1..24 |-> 0]]_vars

\* a hashed directory that has children, under a walk with an index
C5_Witness == \E p \in Hashed : p # RootPath /\ nodes[p].isDir /\ nodes[p].children # <<>> /\ ~idxMap.nil

\* C6 as stated: after a Children() or NumChildren() call on a directory node
\* returned without error, a following call on it does not list the
\* directory again.
C6_ListedOnce ==
    [][\A p \in DOMAIN nodes :
          /\ nodes[p].isDir /\ ret.path = p /\ ret.op \in {"Children", "NumChildren"} /\ ret.err = ""
          /\ ret'.path = p /\ ret'.op \in {"Children", "NumChildren"}
          => fsLog'.dirs[p] = fsLog.dirs[p]]_vars

\* C7: the error kinds of Children() and NumChildren(). When the call lists
\* the directory and ReadDir reports that the path does not exist, the call
\* returns the empty list (0) and no error; when ReadDir fails otherwise, or
\* the Info() of an entry fails, it returns that error and no list (-1); it
\* returns no other error.
C7_ChildrenErrors ==
    ret.op \in {"Children", "NumChildren"} /\ ~ret.cached =>
        LET last == fsLog.dirs[ret.path].last IN
        /\ last = "notexist" => ret.err = "" /\ ret.val = <<>> /\ ret.num = 0 /\ nodes[ret.path].children = <<>>
        /\ last \in {"io", "info"} => ret.err = last /\ ret.val = <<>> /\ ret.num = (IF ret.op = "NumChildren" THEN -1 ELSE 0)
        /\ ret.err # "" => last \in {"io", "info"}

\* NumChildren() returned -1 and the error of an entry's Info()
C7_Witness == ret.op = "NumChildren" /\ ret.err = "info" /\ ret.num = -1

\* the nodes whose slow-path read failed
ReadFailed == {p \in Hashed \cap FileNodes : Len(Reads(p)) = 1 /\ Reads(p)[1].err # ""}

\* C8 as stated: after a failed slow-path read the identifier is all zero.
C8_AsStated == \A p \in ReadFailed : \A i \in DOMAIN nodes[p].hash : nodes[p].hash[i] = 0

\* C8, amended: after a failed slow-path read (open, stat, seek, copy or
\* readlink) the identifier is the zero hash followed by the bytes of the
\* node's translated mode.
C8_SlowPathFailure == \A p \in ReadFailed : nodes[p].hash = [i \in 1..20 |-> 0] \o ModeBytes(GitMode(p))

\* a regular file whose copy failed after it was opened
C8_Witness == \E p \in ReadFailed : Reads(p)[1].err = "copy"

\* C9: mode-translation failure. A hashed file node whose mode has no
\* object-format equivalent carries the zero hash and has read nothing,
\* whatever the index records for its path.
C9_ModeTranslationFailure ==
    \A p \in Hashed \cap FileNodes :
        ~Translatable(p) => nodes[p].hash = [i \in 1..20 |-> 0] /\ Reads(p) = <<>>

\* a hashed named pipe whose path has an index entry
C9_Witness == \E p \in Hashed \cap FileNodes : ~Translatable(p) /\ HasEntry(p)

\* C10: zero modification time. For a hashed file node with a translatable
\* mode and an index entry, the fast path was taken (nothing was read)
\* exactly when the size and mode checks pass and the modification time is
\* zero or the same instant as the entry's.
C10_ZeroModTime ==
    \A p \in Hashed \cap FileNodes :
        HasEntry(p) /\ Translatable(p) =>
            LET sizeAndMode == Uint32(nodes[p].size) = EntryFor(p).Size /\ GitMode(p) = EntryFor(p).Mode IN
            /\ TimeIsZero(nodes[p].modTime) => (Reads(p) = <<>> <=> sizeAndMode)
            /\ ~TimeIsZero(nodes[p].modTime) =>
                  (Reads(p) = <<>> <=> sizeAndMode /\ nodes[p].modTime.inst = EntryFor(p).ModifiedAt.inst)

\* the fast path taken with a zero modification time against an entry
\* recorded at another instant
C10_Witness ==
    \E p \in Hashed \cap FileNodes :
        /\ HasEntry(p) /\ TimeIsZero(nodes[p].modTime) /\ ~TimeIsZero(EntryFor(p).ModifiedAt)
        /\ Reads(p) = <<>> /\ nodes[p].hash = EntryFor(p).Hash \o ModeBytes(EntryFor(p).Mode)

\* the entries of a listing that are neither named ".git" nor sockets, as
\* children of the directory at p
KeptPaths(p, listing) ==
    LET kept == SelectSeq(listing, LAMBDA e : e.name # ".git" /\ ~e.socket) IN
    [i \in DOMAIN kept |-> Join(p, kept[i].name)]

\* at every depth of the tree no child of a node is a ".git" entry or a
\* socket and no child is there twice; a Children() call that listed its
\* directory returns the kept entries of the listing, in listing order
IgnoreSetWhenListed ==
    /\ ret.op = "Children" /\ ret.err = "" /\ ~ret.cached => ret.val = KeptPaths(ret.path, ret.listing)
    /\ ret.op = "Children" /\ ret.err = "" => ret.val = nodes[ret.path].children
    /\ \A p \in DOMAIN nodes : \A i \in DOMAIN nodes[p].children :
          LET c == nodes[p].children[i] IN
          /\ c \in DOMAIN nodes
          /\ c # Join(p, ".git")
          /\ "ModeSocket" \notin nodes[c].mode.bits
          /\ \A j \in DOMAIN nodes[p].children : nodes[p].children[j] = c => i = j

\* C14 as stated: the ignore set. The list Children() returns for a
\* directory never holds a ".git" entry or a socket, at any depth, and
\* holds every other entry of the directory's listing once, in listing
\* order, as the parent's path joined with the name: when the call listed
\* the directory itself, and also when it returns the children kept from
\* the listing the call before it read.
C14_IgnoreSet ==
    /\ []IgnoreSetWhenListed
    /\ [][(/\ ret'.op = "Children" /\ ret'.err = "" /\ ret'.cached
            /\ ret.op \in {"Children", "NumChildren"} /\ ret.path = ret'.path /\ ~ret.cached
            /\ nodes[ret.path].isDir)
           => ret'.val = KeptPaths(ret.path, ret.listing)]_vars

\* C17 as stated: no partial children after an error. When Children() or
\* NumChildren() returns an error, the node keeps no children from that
\* attempt, and a Children() call that follows on the same node lists the
\* directory again and returns an error or the complete list of the
\* listing it read.
C17_NoPartialChildren ==
    /\ [](ret.op \in {"Children", "NumChildren"} /\ ret.err # "" => nodes[ret.path].children = <<>>)
    /\ [][(/\ ret.op \in {"Children", "NumChildren"} /\ ret.err # ""
            /\ ret'.op = "Children" /\ ret'.path = ret.path)
           => /\ ~ret'.cached
              /\ ret'.err # "" \/ ret'.val = KeptPaths(ret'.path, ret'.listing)]_vars

\* C18: submodule paths are leaves. Every node whose path is a key of the
\* submodule map is not a directory, whatever its type on disk, has no
\* children and was never listed; Children() and NumChildren() on it return
\* the empty list and 0 with no error and without a ReadDir call, and no
\* node exists below it.
C18_SubmoduleLeaves ==
    /\ \A p \in DOMAIN nodes \cap DOMAIN submodules :
          /\ ~nodes[p].isDir
          /\ nodes[p].children = <<>>
          /\ fsLog.dirs[p].n = 0
          /\ \A q \in DOMAIN nodes, name \in {"b", ".git"} : q # Join(p, name)
    /\ ret.op \in {"Children", "NumChildren"} /\ ret.path \in DOMAIN submodules =>
          /\ ret.err = ""
          /\ ret.val = <<>>
          /\ ret.num = 0
          /\ ret.cached
          /\ ret.listing = <<>>

\* Children() was called on the submodule path "s", a directory on disk
C18_Witness ==
    /\ ret.op = "Children" /\ ret.path = PathS
    /\ PathS \in DOMAIN submodules
    /\ IsDirMode(nodes[PathS].mode)

\* the fast path was taken at p: the entry's identifier, and nothing read
TookFastPath(p) ==
    /\ Reads(p) = <<>>
    /\ nodes[p].hash = EntryFor(p).Hash \o ModeBytes(EntryFor(p).Mode)

\* the size check of the fast path passes at p exactly when the low 32
\* bits of the observed size (the size modulo 2^32) are the entry's size:
\* with the mode and the modification time matching, that decides between
\* the fast and the slow path, whatever the high bits of the size
SizeCheckModulo ==
    \A p \in Hashed \cap FileNodes :
        (/\ HasEntry(p) /\ Translatable(p) /\ GitMode(p) = EntryFor(p).Mode
         /\ TimeIsZero(nodes[p].modTime) \/ TimeEqual(nodes[p].modTime, EntryFor(p).ModifiedAt))
        => (TookFastPath(p) <=> nodes[p].size.lo = EntryFor(p).Size)

\* C19 as stated: the size check passes exactly when the observed size
\* modulo 2^32 equals the entry's size, and the fast path is taken only
\* when the observed size equals the entry's recorded size.
C19_AsStated ==
    /\ SizeCheckModulo
    /\ \A p \in Hashed \cap FileNodes :
          HasEntry(p) /\ Translatable(p) /\ TookFastPath(p) => nodes[p].size = Size(0, EntryFor(p).Size)

\* C19, amended: the size check passes exactly when the observed size
\* modulo 2^32 equals the entry's size, and the fast path is taken only
\* when the observed size modulo 2^32 equals the entry's recorded size.
C19_SizeComparison ==
    /\ SizeCheckModulo
    /\ \A p \in Hashed \cap FileNodes :
          HasEntry(p) /\ Translatable(p) /\ TookFastPath(p) => nodes[p].size.lo = EntryFor(p).Size

\* a file of 2^32 + 1 bytes took the fast path on an entry of size 1
C19_Witness ==
    \E p \in Hashed \cap FileNodes :
        /\ HasEntry(p) /\ Translatable(p) /\ TookFastPath(p)
        /\ nodes[p].size = Size(1, 1) /\ EntryFor(p).Size = 1

\* what Hash() returns on the node at p taken alone: on a node with the
\* same path, mode, size and modification time and no identifier yet, in
\* the same walk, when the filesystem answers what the node at p has read
HashedAlone(p) ==
    LET n == [nodes[p] EXCEPT !.hash = <<>>] IN
    {r.hash : r \in {r \in {calculateHash(n, io) : io \in IoAnswers(n)} : r.calls = Reads(p)}}

\* C20: parallel hashing of siblings. A Hash() step on a node, whatever
\* Hash() steps on other nodes come before or after it, writes the node's
\* own identifier and the trace of its own reads and nothing else: the
\* index, the index map, the submodule map and the options stay as they
\* are, and so does every other node with the trace of its reads. The
\* identifier of every hashed node is the one Hash() returns on that node
\* alone.
C20_ParallelHashing ==
    /\ [](\A p \in Hashed : nodes[p].hash \in HashedAlone(p))
    /\ [][ret'.op = "Hash" =>
            /\ submodules' = submodules /\ idx' = idx /\ idxMap' = idxMap /\ options' = options
            /\ DOMAIN nodes' = DOMAIN nodes
            /\ nodes'[ret'.path] = [nodes[ret'.path] EXCEPT !.hash = ret'.val]
            /\ fsLog'.dirs = fsLog.dirs
            /\ \A q \in DOMAIN nodes \ {ret'.path} :
                  /\ nodes'[q] = nodes[q]
                  /\ fsLog'.reads[q] = fsLog.reads[q]]_vars

\* the siblings "a" and "s" were hashed one after the other, each from the
\* content it read
C20_Witness ==
    /\ ret.op = "Hash" /\ ~ret.cached /\ ret.path = PathS
    /\ PathA \in Hashed /\ PathS \in Hashed
    /\ Len(Reads(PathA)) = 1 /\ Len(Reads(PathS)) = 1

\* the references a node holds to the objects shared by a walk
SharedRefs(n) == <<n.submodules, n.idx, n.idxMap, n.options>>

\* every node of the walk holds the references of the root, so it reads the
\* same submodule map, index map and options as the root
SameSnapshot ==
    \A p \in DOMAIN nodes :
        /\ SharedRefs(nodes[p]) = SharedRefs(nodes[RootPath])
        /\ submodulesOf(nodes[p]) = submodules
        /\ idxMapOf(nodes[p]) = idxMap
        /\ optionsOf(nodes[p]) = options

\* C21: no Hash(), Children() or NumChildren() call changes the index, the
\* map built from it or the submodule map (nor the options), the map stays
\* the one built from the entries of the index, and every node created by
\* Children() refers to the same index, index map, submodule map and options
\* as the root it descends from
C21_IndexReadOnly ==
    /\ [][submodules' = submodules /\ idx' = idx /\ idxMap' = idxMap /\ options' = options]_vars
    /\ [](~idx.nil => idxMap = [nil |-> FALSE, m |-> BuildIdxMap(idx.Entries, 1, <<>>)])
    /\ []SameSnapshot

\* a node two levels below a root built with an index has been hashed, after
\* its parent was listed and hashed as well
C21_Witness ==
    /\ ~idx.nil /\ ~idxMap.nil
    /\ PathB \in DOMAIN nodes /\ nodes[PathB].hash # <<>>
    /\ PathA \in DOMAIN nodes /\ nodes[PathA].hash # <<>>
    /\ nodes[PathB].idxMap = "idxMap" /\ nodes[PathB].idx = "idx"

\* the regular-file nodes hashed on the slow path whose file was opened and
\* read to the end without an error
ReadRegular == {p \in Hashed \cap FileNodes : "ModeSymlink" \notin nodes[p].mode.bits /\ Len(Reads(p)) = 1 /\ Reads(p)[1].err = ""}

\* what the hasher behind the identifier of p was given: the length declared
\* to it and the number of bytes written to it
DeclaredLength(p) == Size(nodes[p].hash[2], nodes[p].hash[3])

BytesFed(p) == nodes[p].hash[4]

\* C22: on the slow path for a regular file, with AutoCRLF on and content
\* that is not binary, the length declared to the hasher is the observed size
\* minus the number of CR LF pairs, it equals the number of bytes fed to the
\* hasher, and the bytes fed are the content with every CR LF turned into LF;
\* with the option off or binary content the bytes are hashed as read with
\* the observed size as declared length.
C22_CRLFAdjustedLength ==
    \A p \in ReadRegular :
        LET n == nodes[p]
            data == Reads(p)[1].data
            stat == GetStat(data)
        IN  IF AutoCRLFOn /\ ~IsBinary(stat)
            THEN /\ DeclaredLength(p) = SizeMinus(n.size, stat.CRLF)
                 /\ DeclaredLength(p) = Size(0, BytesFed(p))
                 /\ n.hash = HashSum(DeclaredLength(p), LFWrite(data)) \o ModeBytes(GitMode(p))
            ELSE /\ DeclaredLength(p) = n.size
                 /\ n.hash = HashSum(n.size, data) \o ModeBytes(GitMode(p))

\* C23: for every regular-file node hashed with AutoCRLF on, the adjusted
\* length declared to the hasher (the size cached from the directory listing
\* minus the CR LF pairs counted in the bytes read when hashing) is never
\* negative, also when the file changed between the listing and the hashing.
C23_NonNegativeLength ==
    \A p \in ReadRegular :
        AutoCRLFOn /\ ~IsBinary(GetStat(Reads(p)[1].data)) =>
            /\ DeclaredLength(p).hi >= 0
            /\ DeclaredLength(p).lo >= 0

(***************************************************************************)
(* Properties of the layered object store (specification SpecAlternates).  *)
(***************************************************************************)
\* the Lookup calls that have returned
Returned == {c \in Callers : callers[c].res # NoResult}

\* C11 - Alternates caching: over any sequence of Lookup calls on one
\* layered object store the alternate chain is resolved at most once and no
\* backing store is opened twice; once resolved, the chain (and the
\* resolver's work) never changes again, and every Lookup that returns has
\* searched that cached chain.
C11_AlternatesCaching ==
    /\ [](los.resolutions <= 1)
    /\ [](\A i, j \in DOMAIN los.work : los.work[i] = los.work[j] => i = j)
    /\ [](\A c \in Returned : los.state = "done" /\ callers[c].res.chain = los.chain)
    /\ [][los.state = "done" =>
            /\ los'.state = "done"
            /\ los'.chain = los.chain
            /\ los'.work = los.work
            /\ los'.resolutions = los.resolutions]_vars

\* every Lookup of the behaviour has returned, they were for an object held
\* only by alternates and found it there, and the chain was resolved once
C11_Witness ==
    /\ los.lookups = MaxLookups
    /\ los.resolutions = 1
    /\ \A c \in Callers :
          /\ callers[c].pc = "idle"
          /\ callers[c].res.id = "o2"
          /\ callers[c].res.found
          /\ callers[c].res.from # Primary

\* C12 - Single-build under concurrency: whatever the interleaving of the
\* callers' first Lookups, the chain is constructed at most once and by one
\* caller at a time, no Lookup returns while the chain is under
\* construction, and every Lookup that returns has searched the one
\* published chain (never a prefix of it), so all callers observe the same
\* result of the resolution.
C12_SingleBuild ==
    /\ los.resolutions <= 1
    /\ Cardinality({c \in Callers : callers[c].pc = "build"}) <= (IF los.state = "building" THEN 1 ELSE 0)
    /\ los.state # "done" => Returned = {}
    /\ los.state = "done" /\ los.err = "" => los.chain = los.work
    /\ \A c \in Returned : callers[c].res.chain = los.chain /\ callers[c].res.err = los.err
    /\ \A c, d \in Returned : callers[c].res.chain = callers[d].res.chain /\ callers[c].res.err = callers[d].res.err

\* two callers began their Lookup before the chain was resolved, one of
\* them resolved it, and both searched the same chain of two alternates
C12_Witness ==
    /\ los.resolutions = 1
    /\ \A c \in Callers : callers[c].first /\ callers[c].pc = "idle" /\ callers[c].res.chain = los.chain
    /\ Len(los.chain) = 2

\* the stores the declarations of the stores in S name
DeclaredBy(S) == UNION {{decls[s][i] : i \in DOMAIN decls[s]} : s \in S} \cap Stores

\* the stores the primary reaches through declarations, itself included
RECURSIVE reach(_, _)
reach(S, n) == IF n = 0 THEN S ELSE reach(S \cup DeclaredBy(S), n - 1)

Reachable == reach({Primary}, Cardinality(Stores))

\* a store the primary reaches declares a malformed line
MalformedReachable == \E s \in Reachable : \E i \in DOMAIN decls[s] : decls[s][i] = Malformed

InChain(s) == \E i \in DOMAIN los.chain : los.chain[i] = s

\* C13 - Cycle safety: for every declaration graph, cyclic or not, a
\* resolution that began ends; no store is ever twice in the chain and the
\* primary is never in it; a store already present is skipped without an
\* error, so that with no malformed line the resolved chain holds exactly
\* the stores the primary reaches, once each; with S1 declaring S2 and S2
\* declaring S1 the chain is [S2].
C13_CycleSafety ==
    /\ [](\A i, j \in DOMAIN los.work : los.work[i] = los.work[j] => i = j)
    /\ [](\A i \in DOMAIN los.work : los.work[i] # Primary)
    /\ [](los.state = "done" /\ ~MalformedReachable =>
            /\ los.err = ""
            /\ los.chain = los.work
            /\ {s \in Stores : InChain(s)} = Reachable \ {Primary})
    /\ [](los.state = "done" /\ decls["S1"] = <<"S2">> /\ decls["S2"] = <<"S1">> => los.chain = <<"S2">> /\ los.err = "")
    /\ (los.state = "building" ~> los.state = "done")

\* a store that declares itself, in a cycle through all three stores, was
\* resolved to the chain of the two others
C13_Witness ==
    /\ decls["S1"] = <<"S1", "S2">>
    /\ decls["S2"] = <<"S3", "S1">>
    /\ decls["S3"] = <<"S2">>
    /\ los.state = "done"
    /\ los.err = ""
    /\ los.chain = <<"S2", "S3">>

\* the stores a Lookup searches, in order: the primary, then the chain
\* the resolution gave
LookupOrder(chain) == <<Primary>> \o chain

\* the place of a store in the resolved chain
ChainPos(s) == CHOOSE i \in DOMAIN los.chain : los.chain[i] = s

\* the place in the lookup order of the store the result came from
HitAt(r) == CHOOSE i \in DOMAIN LookupOrder(r.chain) : LookupOrder(r.chain)[i] = r.from

\* C15 - Lookup order: a Lookup that returns without a resolution error
\* reports a hit exactly when the primary or a chain member holds the
\* object, and the hit comes from the first store in the order primary,
\* then chain in chain order, that holds it: no store before it holds the
\* object; not-found means that the primary and every chain member miss.
\* The chain keeps the order of the primary's declaration: of two stores it
\* declares, the one declared first comes first in the chain.
C15_LookupOrder ==
    /\ \A c \in Returned :
          LET r == callers[c].res
              order == LookupOrder(r.chain) IN
          r.err = "" =>
              /\ r.found <=> \E i \in DOMAIN order : r.id \in Objects[order[i]]
              /\ r.found =>
                    /\ \E i \in DOMAIN order : order[i] = r.from
                    /\ r.id \in Objects[r.from]
                    /\ \A j \in 1..(HitAt(r) - 1) : r.id \notin Objects[order[j]]
              /\ r.id \in Objects[Primary] => r.found /\ r.from = Primary
    /\ los.state = "done" /\ los.err = "" =>
          LET d == decls[Primary] IN
          \A i, j \in DOMAIN d :
              (/\ i < j
               /\ d[i] # d[j]
               /\ InChain(d[i])
               /\ InChain(d[j])
               /\ \A k \in 1..(i - 1) : d[k] # d[j])
              => ChainPos(d[i]) < ChainPos(d[j])

\* the chain is [S3, S2], both hold o2 and the Lookup returned it from S3;
\* the other caller's Lookup of o1, held by the primary and by S2, returned
\* it from the primary
C15_Witness ==
    /\ los.chain = <<"S3", "S2">>
    /\ \E c, d \in Callers :
          /\ callers[c].res.id = "o2" /\ callers[c].res.found /\ callers[c].res.from = "S3"
          /\ callers[d].res.id = "o1" /\ callers[d].res.found /\ callers[d].res.from = Primary

\* C16 - Malformed alternates: when the declaration of the primary or of
\* a store it reaches has a malformed line, the resolution ends with the
\* error and an empty chain, whatever stores it had opened before the line
\* (the line is not skipped, the stores opened so far are not used), and
\* every Lookup that returns, the first included, returns that error and
\* no object, even one the primary holds.
C16_MalformedAlternates ==
    MalformedReachable =>
        /\ los.state = "done" => los.err = "malformed" /\ los.chain = <<>>
        /\ \A c \in Returned :
              /\ callers[c].res.err = "malformed"
              /\ ~callers[c].res.found
              /\ callers[c].res.chain = <<>>

\* the malformed line is two declarations away from the primary: S2 and S3
\* had been opened when the resolution failed, and the first Lookup, for an
\* object the primary holds, returned the error
C16_Witness ==
    /\ decls["S1"] = <<"S2">>
    /\ decls["S2"] = <<"S3">>
    /\ decls["S3"] = <<Malformed>>
    /\ los.work = <<"S2", "S3">>
    /\ los.lookups = 1
    /\ \E c \in Returned : callers[c].res.id = "o1" /\ callers[c].res.err = "malformed"

====
